---- MODULE Spec2Model ----
(***************************************************************************)
(* Ingestion of cell-count.csv into the SQLite store (load_data.py), the   *)
(* readers that open their own connection to it (dashboard.py), and the    *)
(* analytical functions computed over it (analysis.py).                    *)
(***************************************************************************)
EXTENDS Integers, Sequences, FiniteSets, TLC

VARIABLES
    csv,          \* the source file at CSV_PATH: NoFile or [columns, rows]
    db,           \* the store file at DB_PATH, as a reader's connection sees it
    pc,           \* position of the running load_all
    df,           \* the DataFrame load_all read from the source
    error,        \* the exception load_all raised, "none" if none
    dbAtStart,    \* db when the running (or last) load_all was called
    prev,         \* outcome of the load_all finished before the current one
    csvReplaced,  \* the source file has been replaced by the user
    observed,     \* what the last reader connection got
    frame,        \* the DataFrame handed to an analysis function
    result        \* what the analysis function returned

vars == <<csv, db, pc, df, error, dbAtStart, prev, csvReplaced, observed, frame, result>>

(***************************************************************************)
(* Bounds and input domains                                                *)
(***************************************************************************)
MaxRows == 2
MaxCohort == 3

NULL == "NULL"
None == "None"

POPULATION_COLUMNS == <<"b_cell", "cd8_t_cell", "cd4_t_cell", "nk_cell", "monocyte">>

POPULATIONS == <<"b_cell", "cd8_t_cell", "cd4_t_cell", "nk_cell", "monocyte">>

PopulationSet == {POPULATION_COLUMNS[i] : i \in 1..Len(POPULATION_COLUMNS)}

\* header of cell-count.csv, with one numeric column outside the population set
CsvColumns ==
    {"sample", "subject", "project", "condition", "age", "sex", "sample_type",
     "treatment", "response", "time_from_treatment_start", "nkt_cell"}
    \cup PopulationSet

SubjectIds == {"sbj1", "sbj2"}
SampleIds == {"smp1", "smp2"}

\* One line of the source file.  The variant picks attributes that differ
\* between lines with the same subject or sample, counts that are all zero,
\* and an empty project cell.
CsvRow(subj, samp, k) ==
    [sample |-> samp, subject |-> subj,
     project |-> CASE k = 1 -> "prj1" [] k = 2 -> "prj2" [] OTHER -> NULL,
     condition |-> "melanoma",
     age |-> 40 + k,
     sex |-> IF k = 1 THEN "M" ELSE "F",
     sample_type |-> "PBMC",
     treatment |-> "miraclib",
     response |-> IF k = 1 THEN "yes" ELSE "no",
     time_from_treatment_start |-> 0,
     b_cell |-> IF k = 2 THEN 0 ELSE k,
     cd8_t_cell |-> 0,
     cd4_t_cell |-> IF k = 2 THEN 0 ELSE 2,
     nk_cell |-> 0,
     monocyte |-> IF k = 2 THEN 0 ELSE 1,
     nkt_cell |-> 7]

CsvRows ==
    {CsvRow(s, a, k) : s \in SubjectIds, a \in SampleIds, k \in {1, 2}}
    \cup {CsvRow("sbj2", "smp2", 3)}

SeqsUpTo(S, n) == UNION {[1..m -> S] : m \in 0..n}

Restrict(r, cols) == [c \in cols |-> r[c]]

\* sources with the full header, and sources that lack one required column
FullSources == {[exists |-> TRUE, columns |-> CsvColumns, rows |-> rs] : rs \in SeqsUpTo(CsvRows, MaxRows)}

LackingSources ==
    {[exists |-> TRUE, columns |-> CsvColumns \ {c},
      rows |-> <<Restrict(CsvRow("sbj1", "smp1", 1), CsvColumns \ {c})>>] :
        c \in {"sex", "response", "monocyte"}}

Sources == FullSources \cup LackingSources

\* no file at CSV_PATH
NoFile == [exists |-> FALSE, columns |-> {}, rows |-> <<>>]
LegacySource ==
    [exists |-> TRUE, columns |-> CsvColumns, rows |-> <<CsvRow("sbj1", "smp1", 2)>>]
HeaderOnlySource == [exists |-> TRUE, columns |-> CsvColumns, rows |-> <<>>]
\* load_all holds no frame
NoFrame == [columns |-> {}, rows |-> <<>>]
\* pd.read_csv: the header and the lines of the file
read_csv(c) == [columns |-> c.columns, rows |-> c.rows]
InitialCsv == {NoFile, LegacySource, HeaderOnlySource}

(***************************************************************************)
(* The store: load_data.py                                                 *)
(***************************************************************************)
AbsentDb == [exists |-> FALSE, subjects |-> <<>>, samples |-> <<>>, cell_counts |-> <<>>]
EmptyDb == [exists |-> TRUE, subjects |-> <<>>, samples |-> <<>>, cell_counts |-> <<>>]

Range(s) == {s[i] : i \in 1..Len(s)}

\* SCHEMA_SQL: subjects(subject_id PRIMARY KEY, project NOT NULL, condition NOT NULL)
SubjectsConstraints(table) ==
    /\ \A i, j \in 1..Len(table) : table[i].subject_id = table[j].subject_id => i = j
    /\ \A i \in 1..Len(table) : table[i].project # NULL /\ table[i].condition # NULL

\* SCHEMA_SQL: samples(sample_id PRIMARY KEY, subject_id NOT NULL REFERENCES subjects,
\* sample_type NOT NULL), foreign keys enforced by get_connection's PRAGMA
SamplesConstraints(table, subjects) ==
    /\ \A i, j \in 1..Len(table) : table[i].sample_id = table[j].sample_id => i = j
    /\ \A i \in 1..Len(table) :
          /\ table[i].subject_id # NULL
          /\ table[i].sample_type # NULL
          /\ \E s \in Range(subjects) : s.subject_id = table[i].subject_id

\* cell_counts declared without UNIQUE(sample_id, population)
CellCountsConstraints_NoUnique(table, samples) ==
    /\ \A i, j \in 1..Len(table) : table[i].id = table[j].id => i = j
    /\ \A i \in 1..Len(table) :
          /\ table[i].sample_id # NULL
          /\ table[i].population # NULL
          /\ \E s \in Range(samples) : s.sample_id = table[i].sample_id

\* SCHEMA_SQL: cell_counts(id PRIMARY KEY AUTOINCREMENT, sample_id NOT NULL REFERENCES
\* samples, population NOT NULL, count NOT NULL, UNIQUE(sample_id, population));
\* the counts of CsvRow are never empty cells, so count NOT NULL has no case here
CellCountsConstraints(table, samples) ==
    /\ \A i, j \in 1..Len(table) :
          (table[i].sample_id = table[j].sample_id
             /\ table[i].population = table[j].population) => i = j
    /\ \A i, j \in 1..Len(table) : table[i].id = table[j].id => i = j
    /\ \A i \in 1..Len(table) :
          /\ table[i].sample_id # NULL
          /\ table[i].population # NULL
          /\ \E s \in Range(samples) : s.sample_id = table[i].sample_id

\* DataFrame.drop_duplicates(subset=[key]): keep="first" is the default
drop_duplicates(rows, key) ==
    LET dd[n \in 0..Len(rows)] ==
            IF n = 0 THEN <<>>
            ELSE IF \E j \in 1..(n - 1) : rows[j][key] = rows[n][key]
                 THEN dd[n - 1]
                 ELSE Append(dd[n - 1], rows[n])
    IN dd[Len(rows)]

\* the frame _insert_subjects hands to to_sql
SubjectsFrame(d) ==
    LET Proj(r) == [subject_id |-> r.subject, project |-> r.project,
                    condition |-> r.condition, age |-> r.age, sex |-> r.sex]
        kept == drop_duplicates(d.rows, "subject")
    IN [i \in 1..Len(kept) |-> Proj(kept[i])]

\* the frame _insert_samples hands to to_sql
SamplesFrame(d) ==
    LET Proj(r) == [sample_id |-> r.sample, subject_id |-> r.subject,
                    sample_type |-> r.sample_type, treatment |-> r.treatment,
                    response |-> r.response,
                    time_from_treatment_start |-> r.time_from_treatment_start]
        kept == drop_duplicates(d.rows, "sample")
    IN [i \in 1..Len(kept) |-> Proj(kept[i])]

\* a melt that leaves out the cells whose count is zero
melt_NonZero(rows, value_vars) ==
    LET n == Len(rows)
        all == [k \in 1..(n * Len(value_vars)) |->
                  LET p == value_vars[((k - 1) \div n) + 1]
                      r == rows[((k - 1) % n) + 1]
                  IN [sample_id |-> r.sample, population |-> p, count |-> r[p]]]
    IN SelectSeq(all, LAMBDA c : c.count # 0)

\* DataFrame.melt(id_vars=["sample"], value_vars=POPULATION_COLUMNS): one block of
\* all the rows per population column, in column order
melt(rows, value_vars) ==
    LET n == Len(rows)
    IN [k \in 1..(n * Len(value_vars)) |->
          LET p == value_vars[((k - 1) \div n) + 1]
              r == rows[((k - 1) % n) + 1]
          IN [sample_id |-> r.sample, population |-> p, count |-> r[p]]]

\* the rows to_sql appends to cell_counts, with the AUTOINCREMENT ids
CellCountsFrame(d, table) ==
    LET m == melt(d.rows, POPULATION_COLUMNS)
    IN [k \in 1..Len(m) |->
          [id |-> Len(table) + k, sample_id |-> m[k].sample_id,
           population |-> m[k].population, count |-> m[k].count]]

\* a _create_database that keeps the existing store file
unlink_existing_Kept(d) == d

\* _create_database, first half: an existing store file is unlinked
unlink_existing(d) == IF d.exists THEN AbsentDb ELSE d

\* _create_database, second half: get_connection creates the file when it is
\* missing and executescript(SCHEMA_SQL) creates the tables IF NOT EXISTS
create_schema(d) == IF d.exists THEN d ELSE EmptyDb

\* a load_all that creates the database before it looks for the source
load_all_entry_CheckLate(c, d) ==
    IF ~c.exists
    THEN [pc |-> "raised", error |-> "FileNotFoundError", df |-> NoFrame, db |-> EmptyDb]
    ELSE [pc |-> "unlink", error |-> "none", df |-> read_csv(c), db |-> d]

\* load_all up to and including read_csv: the position it goes on from, the
\* exception it raises, the frame it holds and the store it leaves
load_all_entry(c, d) ==
    IF ~c.exists
    THEN [pc |-> "raised", error |-> "FileNotFoundError", df |-> NoFrame, db |-> d]
    ELSE [pc |-> "unlink", error |-> "none", df |-> read_csv(c), db |-> d]

Resting == {"idle", "returned", "raised"}
Running == {"unlink", "connect", "insert_subjects", "insert_samples",
            "insert_cell_counts", "commit"}

(***************************************************************************)
(* The frequency engine: analysis.py                                       *)
(***************************************************************************)
RECURSIVE SumCounts(_)
SumCounts(rows) ==
    IF rows = <<>> THEN 0 ELSE rows[1].count + SumCounts(Tail(rows))

\* a total taken over the whole frame instead of per sample
GroupTotal_Ungrouped(rows, smp) == SumCounts(rows)

\* df.groupby("sample")["count"].sum(): the total of the rows of one sample
GroupTotal(rows, smp) == SumCounts(SelectSeq(rows, LAMBDA r : r.sample = smp))

\* _attach_percentages: count / total_count * 100 is kept as the exact fraction
\* num / den; den = 0 is the 0 / 0 the code evaluates for an all-zero sample
attach_percentages(rows) ==
    [i \in 1..Len(rows) |->
        LET total == GroupTotal(rows, rows[i].sample)
        IN [sample |-> rows[i].sample, total_count |-> total,
            population |-> rows[i].population, count |-> rows[i].count,
            percentage |-> [num |-> rows[i].count * 100, den |-> total]]]

\* the order of Python's string comparison on the names the model uses
StrRank(s) ==
    CASE s = "b_cell" -> 1 [] s = "cd4_t_cell" -> 2 [] s = "cd8_t_cell" -> 3
      [] s = "monocyte" -> 4 [] s = "nk_cell" -> 5
      [] s = "smp1" -> 1 [] s = "smp2" -> 2

\* build_frequency_table: SELECT sample_id AS sample, population, count FROM
\* cell_counts, percentages attached, sorted by (sample, population)
build_frequency_table(cell_counts) ==
    LET sel == [i \in 1..Len(cell_counts) |->
                   [sample |-> cell_counts[i].sample_id,
                    population |-> cell_counts[i].population,
                    count |-> cell_counts[i].count]]
        Before(a, b) ==
            \/ StrRank(a.sample) < StrRank(b.sample)
            \/ /\ a.sample = b.sample
               /\ StrRank(a.population) < StrRank(b.population)
    IN SortSeq(attach_percentages(sel), Before)

(***************************************************************************)
(* Ingestion and its readers as a state machine                            *)
(***************************************************************************)
NoPrev == [src |-> NoFrame, outcome |-> "idle", db |-> AbsentDb]
NoObservation == [query |-> "none", at |-> "idle", view |-> AbsentDb, rows |-> <<>>]

Init ==
    /\ csv \in InitialCsv
    /\ db = AbsentDb
    /\ pc = "idle"
    /\ df = NoFrame
    /\ error = "none"
    /\ dbAtStart = AbsentDb
    /\ prev = NoPrev
    /\ csvReplaced = FALSE
    /\ observed = NoObservation
    /\ frame = <<>>
    /\ result = None

Raise(e) ==
    /\ pc' = "raised"
    /\ error' = e
    /\ UNCHANGED db

\* load_all is called: the existence check and read_csv (lines 103-106)
LoadAllCalled ==
    /\ pc \in Resting
    /\ LET e == load_all_entry(csv, db)
       IN /\ pc' = e.pc
          /\ error' = e.error
          /\ df' = e.df
          /\ db' = e.db
    /\ dbAtStart' = db
    /\ prev' = [src |-> df, outcome |-> pc, db |-> db]
    /\ observed' = NoObservation
    /\ UNCHANGED <<csv, csvReplaced, frame, result>>

\* python load_data.py
LoadDataMain == LoadAllCalled

\* dashboard._init_db: ingestion only when the store file is missing
InitDb ==
    /\ ~db.exists
    /\ LoadAllCalled

Unlink ==
    /\ pc = "unlink"
    /\ db' = unlink_existing(db)
    /\ pc' = "connect"
    /\ UNCHANGED <<csv, df, error, dbAtStart, prev, csvReplaced, observed, frame, result>>

Connect ==
    /\ pc = "connect"
    /\ db' = create_schema(db)
    /\ pc' = "insert_subjects"
    /\ UNCHANGED <<csv, df, error, dbAtStart, prev, csvReplaced, observed, frame, result>>

\* _insert_subjects: a KeyError for a missing column, else to_sql appends the frame
\* in one transaction, which commits or rolls back on an IntegrityError
InsertSubjects ==
    /\ pc = "insert_subjects"
    /\ IF ~({"subject", "project", "condition", "age", "sex"} \subseteq df.columns)
       THEN Raise("KeyError")
       ELSE LET t == db.subjects \o SubjectsFrame(df)
            IN IF SubjectsConstraints(t)
               THEN /\ db' = [db EXCEPT !.subjects = t]
                    /\ pc' = "insert_samples"
                    /\ UNCHANGED error
               ELSE Raise("IntegrityError")
    /\ UNCHANGED <<csv, df, dbAtStart, prev, csvReplaced, observed, frame, result>>

InsertSamples ==
    /\ pc = "insert_samples"
    /\ IF ~({"sample", "subject", "sample_type", "treatment", "response",
             "time_from_treatment_start"} \subseteq df.columns)
       THEN Raise("KeyError")
       ELSE LET t == db.samples \o SamplesFrame(df)
            IN IF SamplesConstraints(t, db.subjects)
               THEN /\ db' = [db EXCEPT !.samples = t]
                    /\ pc' = "insert_cell_counts"
                    /\ UNCHANGED error
               ELSE Raise("IntegrityError")
    /\ UNCHANGED <<csv, df, dbAtStart, prev, csvReplaced, observed, frame, result>>

InsertCellCounts ==
    /\ pc = "insert_cell_counts"
    /\ IF ~(({"sample"} \cup PopulationSet) \subseteq df.columns)
       THEN Raise("KeyError")
       ELSE LET t == db.cell_counts \o CellCountsFrame(df, db.cell_counts)
            IN IF CellCountsConstraints(t, db.samples)
               THEN /\ db' = [db EXCEPT !.cell_counts = t]
                    /\ pc' = "commit"
                    /\ UNCHANGED error
               ELSE Raise("IntegrityError")
    /\ UNCHANGED <<csv, df, dbAtStart, prev, csvReplaced, observed, frame, result>>

\* conn.commit() and the row-count log: every to_sql has committed already
Commit ==
    /\ pc = "commit"
    /\ pc' = "returned"
    /\ UNCHANGED <<csv, db, df, error, dbAtStart, prev, csvReplaced, observed, frame, result>>

\* the user puts another file at CSV_PATH, or removes it, between two runs
ReplaceCsv ==
    /\ pc \in Resting
    /\ ~csvReplaced
    /\ \E s \in Sources \cup {NoFile} : csv' = s
    /\ csvReplaced' = TRUE
    /\ UNCHANGED <<db, pc, df, error, dbAtStart, prev, observed, frame, result>>

\* a dashboard query on its own connection (_get_conn): one SELECT sees the
\* committed tables, or no table at all when the file is missing (the empty file
\* sqlite3.connect may leave behind in that case is not kept in db)
ReaderQuery ==
    /\ observed' = [query |-> "tables", at |-> pc, view |-> db, rows |-> <<>>]
    /\ UNCHANGED <<csv, db, pc, df, error, dbAtStart, prev, csvReplaced, frame, result>>

\* dashboard._render_frequency_table: build_frequency_table(get_connection())
ReaderFrequencyTable ==
    /\ db.exists
    /\ observed' = [query |-> "frequency", at |-> pc, view |-> db,
                    rows |-> build_frequency_table(db.cell_counts)]
    /\ UNCHANGED <<csv, db, pc, df, error, dbAtStart, prev, csvReplaced, frame, result>>

Next ==
    \/ LoadDataMain
    \/ InitDb
    \/ Unlink
    \/ Connect
    \/ InsertSubjects
    \/ InsertSamples
    \/ InsertCellCounts
    \/ Commit
    \/ ReplaceCsv
    \/ ReaderQuery
    \/ ReaderFrequencyTable

Spec == Init /\ [][Next]_vars

(***************************************************************************)
(* Properties of ingestion                                                 *)
(***************************************************************************)
Finished == {"returned", "raised"}

SourceSubjects(d) == {r.subject : r \in Range(d.rows)}
SourceSamples(d) == {r.sample : r \in Range(d.rows)}

\* the first line of the frame that carries value v in column key
FirstRow(d, key, v) ==
    d.rows[CHOOSE i \in 1..Len(d.rows) :
              /\ d.rows[i][key] = v
              /\ \A j \in 1..(i - 1) : d.rows[j][key] # v]

\* C1: when load_all raises after the source was read, the store is in the state
\* it had when load_all was called.
C1_FailureLeavesPriorStore ==
    (pc = "raised" /\ error # "FileNotFoundError") => db = dbAtStart

\* C2: a reader that queried the store while load_all ran saw the store from
\* before the ingestion or the store the ingestion left.
C2_ReaderSeesBeforeOrAfter ==
    (pc = "returned" /\ observed.query # "none") => observed.view \in {dbAtStart, db}

\* C3: after load_all returns, subjects has one row per distinct subject value,
\* samples one row per distinct sample value, and cell_counts exactly one row per
\* (sample, population) for the five populations, zero counts included, and no
\* row for another column.
C3_RowCounts ==
    pc = "returned" =>
        /\ Len(db.subjects) = Cardinality(SourceSubjects(df))
        /\ Len(db.samples) = Cardinality(SourceSamples(df))
        /\ Len(db.cell_counts) = Len(db.samples) * 5
        /\ \A i \in 1..Len(db.samples) : \A p \in PopulationSet :
              Cardinality({k \in 1..Len(db.cell_counts) :
                              /\ db.cell_counts[k].sample_id = db.samples[i].sample_id
                              /\ db.cell_counts[k].population = p}) = 1
        /\ \A k \in 1..Len(db.cell_counts) : db.cell_counts[k].population \in PopulationSet

C3_Witness ==
    /\ pc = "returned"
    /\ Len(df.rows) = 2
    /\ Len(db.subjects) = 1
    /\ Len(db.samples) = 2
    /\ \E k \in 1..Len(db.cell_counts) : db.cell_counts[k].count = 0
    /\ "nkt_cell" \in df.columns

\* C4: a finished load_all that follows a finished load_all of the same source
\* ends the same way and leaves the same store, and a store that load_all
\* returned from holds no subject, sample or cell count that is not in its source.
C4_Idempotent ==
    /\ (pc \in Finished /\ prev.outcome \in Finished /\ df # NoFrame /\ prev.src = df)
          => (pc = prev.outcome /\ db = prev.db)
    /\ pc = "returned" =>
          /\ \A i \in 1..Len(db.subjects) : db.subjects[i].subject_id \in SourceSubjects(df)
          /\ \A i \in 1..Len(db.samples) : db.samples[i].sample_id \in SourceSamples(df)
          /\ \A k \in 1..Len(db.cell_counts) :
                \E r \in Range(df.rows) :
                    /\ r.sample = db.cell_counts[k].sample_id
                    /\ r[db.cell_counts[k].population] = db.cell_counts[k].count

C4_Witness ==
    /\ pc = "returned"
    /\ prev.outcome = "returned"
    /\ prev.src = df
    /\ dbAtStart = db
    /\ Len(db.samples) = 2
    /\ csvReplaced

\* C8: when the source file does not exist load_all raises the not-found error and
\* the store file is as it was when load_all was called.
C8_MissingSourceLeavesStore ==
    error = "FileNotFoundError" => (pc = "raised" /\ db = dbAtStart)

C8_Witness ==
    /\ error = "FileNotFoundError"
    /\ pc = "raised"
    /\ db.exists
    /\ db.cell_counts # <<>>

\* C9: subjects are written before samples and samples before cell counts, and in
\* every state every samples row references a subjects row, every cell_counts row
\* references a samples row, and no two cell_counts rows share (sample_id, population).
C9_ReferentialIntegrity ==
    /\ pc = "insert_subjects" => (db.subjects = <<>> /\ db.samples = <<>> /\ db.cell_counts = <<>>)
    /\ pc = "insert_samples" => (db.samples = <<>> /\ db.cell_counts = <<>>)
    /\ pc = "insert_cell_counts" => db.cell_counts = <<>>
    /\ \A i \in 1..Len(db.samples) :
          \E j \in 1..Len(db.subjects) : db.subjects[j].subject_id = db.samples[i].subject_id
    /\ \A k \in 1..Len(db.cell_counts) :
          \E i \in 1..Len(db.samples) : db.samples[i].sample_id = db.cell_counts[k].sample_id
    /\ \A k, l \in 1..Len(db.cell_counts) :
          (db.cell_counts[k].sample_id = db.cell_counts[l].sample_id
             /\ db.cell_counts[k].population = db.cell_counts[l].population) => k = l

C9_Witness ==
    /\ pc = "raised"
    /\ error = "IntegrityError"
    /\ Len(db.samples) = 1
    /\ Len(df.rows) = 2
    /\ db.cell_counts = <<>>

\* a frame with every required column and no empty project cell
WellFormed(d) ==
    /\ d.columns = CsvColumns
    /\ \A r \in Range(d.rows) : r.project # NULL

\* C10: a source whose lines repeat a subject or a sample value is ingested
\* without error; the subjects row of a repeated subject and the samples row of a
\* repeated sample carry the attributes of the first line with that value.
C10_FirstOccurrenceWins ==
    (pc \in Finished /\ df # NoFrame /\ WellFormed(df)) =>
        /\ pc = "returned"
        /\ \A i \in 1..Len(db.subjects) :
              LET r == FirstRow(df, "subject", db.subjects[i].subject_id)
              IN /\ db.subjects[i].project = r.project
                 /\ db.subjects[i].condition = r.condition
                 /\ db.subjects[i].age = r.age
                 /\ db.subjects[i].sex = r.sex
        /\ \A i \in 1..Len(db.samples) :
              LET r == FirstRow(df, "sample", db.samples[i].sample_id)
              IN /\ db.samples[i].subject_id = r.subject
                 /\ db.samples[i].response = r.response

\* C7: in the frequency table every row's total_count is the sum of the counts of
\* the cell_counts rows of its sample, and the percentages of a sample with a
\* positive total sum to 100.
C7_PercentagesSumTo100 ==
    observed.query = "frequency" =>
        LET cc == observed.view.cell_counts
            OfSample(rows, smp) == SelectSeq(rows, LAMBDA r : r.sample = smp)
            RECURSIVE SumNum(_)
            SumNum(rows) ==
                IF rows = <<>> THEN 0 ELSE rows[1].percentage.num + SumNum(Tail(rows))
        IN /\ Len(observed.rows) = Len(cc)
           /\ \A i \in 1..Len(observed.rows) :
                 LET row == observed.rows[i]
                     mine == SelectSeq(cc, LAMBDA c : c.sample_id = row.sample)
                 IN /\ row.total_count = SumCounts(mine)
                    /\ row.percentage.den = row.total_count
                    /\ row.percentage.num = 100 * row.count
                    /\ row.total_count > 0 =>
                          SumNum(OfSample(observed.rows, row.sample)) = 100 * row.percentage.den

C7_Witness ==
    /\ observed.query = "frequency"
    /\ Len(observed.rows) = 10
    /\ \E i, j \in 1..Len(observed.rows) :
          /\ observed.rows[i].sample # observed.rows[j].sample
          /\ observed.rows[i].total_count > 0
          /\ observed.rows[j].total_count = 0

(***************************************************************************)
(* The aggregator: analysis.summarize_baseline_subset                      *)
(***************************************************************************)
CohortSampleIds == <<"smp1", "smp2", "smp3", "smp4", "smp5">>
CohortSubjectIds == {"sbj1", "sbj2", "sbj3"}
Responses == {"yes", "no", NULL}

\* One row of fetch_baseline_melanoma_samples: project and sex belong to the
\* subject, response to the sample; response and sex are nullable columns.
BaselineRow(i, subj, resp) ==
    [sample_id |-> CohortSampleIds[i], subject_id |-> subj,
     project |-> IF subj = "sbj2" THEN "prj2" ELSE "prj1",
     condition |-> "melanoma", treatment |-> "miraclib", response |-> resp,
     sex |-> CASE subj = "sbj1" -> "M" [] subj = "sbj2" -> "F" [] OTHER -> NULL,
     time_from_treatment_start |-> 0]

BaselineFrames ==
    {[i \in 1..Len(c) |-> BaselineRow(i, c[i][1], c[i][2])] :
        c \in SeqsUpTo(CohortSubjectIds \X Responses, MaxCohort)}

\* Series.value_counts(): one entry per value, missing values left out (dropna=True)
value_counts(rows, col) ==
    [v \in {rows[i][col] : i \in 1..Len(rows)} \ {NULL} |->
        Cardinality({i \in 1..Len(rows) : rows[i][col] = v})]

\* groupby(by)[col].count(): one entry per key, rows with a missing key left out,
\* counting the rows whose col is not missing
groupby_count(rows, by, col) ==
    [v \in {rows[i][by] : i \in 1..Len(rows)} \ {NULL} |->
        Cardinality({i \in 1..Len(rows) : rows[i][by] = v /\ rows[i][col] # NULL})]

summarize_baseline_subset(baseline) ==
    LET subjects == drop_duplicates(baseline, "subject_id")
    IN [samples_per_project |-> groupby_count(baseline, "project", "sample_id"),
        response_counts |-> value_counts(subjects, "response"),
        sex_counts |-> value_counts(subjects, "sex")]

InitSummary ==
    /\ frame \in BaselineFrames
    /\ pc = "cohort_ready"
    /\ result = None
    /\ csv = NoFile
    /\ db = AbsentDb
    /\ df = NoFrame
    /\ error = "none"
    /\ dbAtStart = AbsentDb
    /\ prev = NoPrev
    /\ csvReplaced = FALSE
    /\ observed = NoObservation

SummarizeBaselineSubset ==
    /\ pc = "cohort_ready"
    /\ result' = summarize_baseline_subset(frame)
    /\ pc' = "summarized"
    /\ UNCHANGED <<csv, db, df, error, dbAtStart, prev, csvReplaced, observed, frame>>

NextSummary == SummarizeBaselineSubset

SpecSummary == InitSummary /\ [][NextSummary]_vars

RECURSIVE SumOver(_, _)
SumOver(f, S) ==
    IF S = {} THEN 0
    ELSE LET x == CHOOSE y \in S : TRUE IN f[x] + SumOver(f, S \ {x})

Total(f) == SumOver(f, DOMAIN f)

\* C6: samples_per_project sums to the number of rows of the cohort, and
\* response_counts and sex_counts each sum to its number of distinct subject_id.
C6_SubjectLevelCounts ==
    pc = "summarized" =>
        LET distinct == Cardinality({frame[i].subject_id : i \in 1..Len(frame)})
        IN /\ Total(result.samples_per_project) = Len(frame)
           /\ Total(result.response_counts) = distinct
           /\ Total(result.sex_counts) = distinct

(***************************************************************************)
(* The statistical comparator: analysis.compare_responders                 *)
(***************************************************************************)
Percent(n) == [num |-> 100 * n, den |-> 4]

\* One row of fetch_melanoma_miraclib_pbmc with its percentage attached
CohortRow(i, pop, resp, n) ==
    [sample |-> CohortSampleIds[i], population |-> pop, response |-> resp,
     count |-> n, total_count |-> 4, percentage |-> Percent(n)]

CohortFrames ==
    {[i \in 1..Len(c) |-> CohortRow(i, c[i][1], c[i][2], c[i][3])] :
        c \in SeqsUpTo({"b_cell", "nk_cell"} \X {"yes", "no"} \X {1, 2}, MaxCohort)}

\* the percentages of one population and one response, in frame order
Group(rows, pop, resp) ==
    SelectSeq(rows, LAMBDA r : r.population = pop /\ r.response = resp)

Less(a, b) == a.num * b.den < b.num * a.den
Equal(a, b) == a.num * b.den = b.num * a.den

\* twice the U statistic of the first sample: 2 per pair x > y, 1 per tie
mannwhitneyu_x2(x, y) ==
    LET Pairs == (1..Len(x)) \X (1..Len(y))
    IN 2 * Cardinality({q \in Pairs : Less(y[q[2]].percentage, x[q[1]].percentage)})
       + Cardinality({q \in Pairs : Equal(y[q[2]].percentage, x[q[1]].percentage)})

\* compare_responders.  With an empty group scipy.stats.mannwhitneyu either raises
\* ValueError, which leaves the loop and the function, or returns NaN, depending
\* on the installed version; libraryRaises is that choice.  The p-value and the
\* significant flag derived from it are left out; a result row has no error entry.
compare_responders(rows, libraryRaises) ==
    LET Empty(pop) == Group(rows, pop, "yes") = <<>> \/ Group(rows, pop, "no") = <<>>
    IN IF libraryRaises /\ \E i \in 1..Len(POPULATIONS) : Empty(POPULATIONS[i])
       THEN [raised |-> "ValueError", rows |-> <<>>]
       ELSE [raised |-> "none",
             rows |-> [i \in 1..Len(POPULATIONS) |->
                         LET pop == POPULATIONS[i]
                         IN [population |-> pop,
                             nan |-> Empty(pop),
                             u_statistic_x2 |->
                                 IF Empty(pop) THEN 0
                                 ELSE mannwhitneyu_x2(Group(rows, pop, "yes"),
                                                      Group(rows, pop, "no")),
                             error |-> "none"]]]

InitCompare ==
    /\ frame \in CohortFrames
    /\ pc = "cohort_ready"
    /\ result = None
    /\ csv = NoFile
    /\ db = AbsentDb
    /\ df = NoFrame
    /\ error = "none"
    /\ dbAtStart = AbsentDb
    /\ prev = NoPrev
    /\ csvReplaced = FALSE
    /\ observed = NoObservation

CompareResponders ==
    /\ pc = "cohort_ready"
    /\ \E libraryRaises \in BOOLEAN : result' = compare_responders(frame, libraryRaises)
    /\ pc' = "compared"
    /\ UNCHANGED <<csv, db, df, error, dbAtStart, prev, csvReplaced, observed, frame>>

NextCompare == CompareResponders

SpecCompare == InitCompare /\ [][NextCompare]_vars

\* C5: a population with an empty "yes" or "no" group is reported as failed with an
\* insufficient-group-size error, the run is not aborted, and every population
\* with two non-empty groups gets a result.
C5_EmptyGroupReportedPerPopulation ==
    pc = "compared" =>
        /\ result.raised = "none"
        /\ Len(result.rows) = Len(POPULATIONS)
        /\ \A i \in 1..Len(result.rows) :
              LET pop == result.rows[i].population
                  empty == Group(frame, pop, "yes") = <<>> \/ Group(frame, pop, "no") = <<>>
              IN IF empty
                 THEN result.rows[i].error = "InsufficientGroupSizeError"
                 ELSE result.rows[i].error = "none" /\ ~result.rows[i].nan

====
